---------------------------- MODULE Spec2Model ----------------------------
(***************************************************************************)
(* A model of screen-to-crm (src/main.py): the CSV loader read_csv, the    *)
(* prompt builder build_prompt and the polling/batching loop main_loop.    *)
(*                                                                         *)
(* A Python str is modelled as a sequence of one-character strings, so     *)
(* that serialisation (json.dumps, the f-string template) is computed      *)
(* character by character and "contains" is a real substring test.         *)
(***************************************************************************)
EXTENDS Integers, Sequences, FiniteSets, TLC

(***************************************************************************)
(* Bounds of the model.                                                    *)
(***************************************************************************)
\* largest --batch_size explored (0 is explored too: argparse accepts it)
MaxBatch == 3
\* most frames a test corpus holds, and most captures of a live run
MaxFrames == 4
\* most read_csv calls of the stand-alone CSV specification
MaxReads == 3
\* most frames handed to build_prompt in the stand-alone prompt specification
MaxPromptFrames == 2

(***************************************************************************)
(* Strings.                                                                *)
(***************************************************************************)
RECURSIVE Concat(_)
Concat(ss) == IF ss = <<>> THEN <<>> ELSE Head(ss) \o Concat(Tail(ss))

RECURSIVE Join(_, _)
Join(ss, sep) ==
    IF ss = <<>> THEN <<>>
    ELSE IF Len(ss) = 1 THEN ss[1]
    ELSE ss[1] \o sep \o Join(Tail(ss), sep)

\* s occurs in hay starting at position p
OccursAt(hay, s, p) ==
    /\ p >= 1
    /\ p + Len(s) - 1 <= Len(hay)
    /\ \A i \in 1..Len(s) : hay[p + i - 1] = s[i]

\* the positions >= from at which s occurs in hay
Occurrences(hay, s, from) ==
    {p \in from..(Len(hay) - Len(s) + 1) : OccursAt(hay, s, p)}

Contains(hay, s) == Occurrences(hay, s, 1) # {}

Min(S) == CHOOSE x \in S : \A y \in S : x <= y

\* the strings ss occur in hay one after the other, without overlap, in the
\* order of ss, the first of them at or after position from (leftmost scan)
RECURSIVE ContainsInOrder(_, _, _)
ContainsInOrder(hay, ss, from) ==
    IF ss = <<>> THEN TRUE
    ELSE LET occ == Occurrences(hay, Head(ss), from)
         IN  /\ occ # {}
             /\ ContainsInOrder(hay, Tail(ss), Min(occ) + Len(Head(ss)))

Digits == <<"0", "1", "2", "3", "4", "5", "6", "7", "8", "9">>

\* str(n) of a Python int, as the f-string and json.dumps render it
RECURSIVE int_str(_)
int_str(n) ==
    IF n < 0 THEN <<"-">> \o int_str(-n)
    ELSE IF n < 10 THEN <<Digits[n + 1]>>
    ELSE int_str(n \div 10) \o <<Digits[(n % 10) + 1]>>

(***************************************************************************)
(* json.dumps(obj, indent=4) for the objects build_prompt serialises.  A   *)
(* JSON value is a tagged record: [t |-> "str", v |-> string],             *)
(* [t |-> "int", v |-> integer], [t |-> "list", v |-> sequence of values], *)
(* [t |-> "dict", v |-> sequence of <<key string, value>>] (a Python dict  *)
(* keeps insertion order).                                                 *)
(***************************************************************************)
JStr(s) == [t |-> "str", v |-> s]
JInt(n) == [t |-> "int", v |-> n]
JList(xs) == [t |-> "list", v |-> xs]
JDict(kvs) == [t |-> "dict", v |-> kvs]

\* the escapes of json.dumps (ensure_ascii=True) for the characters of the
\* model's alphabet; every other printable ASCII character is kept as it is
json_escape_char(c) ==
    CASE c = "\"" -> <<"\\", "\"">>
      [] c = "\\" -> <<"\\", "\\">>
      [] c = "\n" -> <<"\\", "n">>
      [] c = "\t" -> <<"\\", "t">>
      [] OTHER -> <<c>>

json_escape(s) == Concat([i \in 1..Len(s) |-> json_escape_char(s[i])])

json_dumps_str(s) == <<"\"">> \o json_escape(s) \o <<"\"">>

Indent(level) == [i \in 1..(4 * level) |-> " "]

RECURSIVE json_dumps_at(_, _)
json_dumps_at(o, level) ==
    CASE o.t = "str" -> json_dumps_str(o.v)
      [] o.t = "int" -> int_str(o.v)
      [] o.t = "list" ->
            IF Len(o.v) = 0 THEN <<"[", "]">>
            ELSE <<"[", "\n">>
                 \o Join([i \in 1..Len(o.v) |->
                            Indent(level + 1) \o json_dumps_at(o.v[i], level + 1)],
                         <<",", "\n">>)
                 \o <<"\n">> \o Indent(level) \o <<"]">>
      [] o.t = "dict" ->
            IF Len(o.v) = 0 THEN <<"{", "}">>
            ELSE <<"{", "\n">>
                 \o Join([i \in 1..Len(o.v) |->
                            Indent(level + 1) \o json_dumps_str(o.v[i][1])
                            \o <<":", " ">> \o json_dumps_at(o.v[i][2], level + 1)],
                         <<",", "\n">>)
                 \o <<"\n">> \o Indent(level) \o <<"}">>

json_dumps(o) == json_dumps_at(o, 0)

\* a list of CSV records (each a sequence of <<column, value>>) as a JSON value
RecordsJson(records) ==
    JList([i \in 1..Len(records) |->
             JDict([j \in 1..Len(records[i]) |->
                      <<records[i][j][1], JStr(records[i][j][2])>>])])

(***************************************************************************)
(* build_prompt: the literal pieces of the template, then the function.    *)
(***************************************************************************)
PromptRole ==
    <<"Y", "o", "u", " ", "a", "r", "e", " ", "a", "n", " ", "A", "I", " ",
      "a", "s", "s", "i", "s", "t", "a", "n", "t", " ", "t", "h", "a", "t",
      " ", "g", "e", "t", " ", "t", "e", "x", "t", " ", "f", "r", "o", "m",
      " ", "a", " ", "u", "s", "e", "r", " ", "s", "c", "r", "e", "e", "n",
      " ", "d", "o", "i", "n", "g", " ", "s", "a", "l", "e", "s", " ", "(",
      "t", "h", "r", "o", "u", "g", "h", " ", "O", "C", "R", ")", " ", "a",
      "n", "d", " ", "y", "o", "u", " ", "j", "o", "b", " ", "i", "s", " ",
      "t", "o", " ", "u", "p", "d", "a", "t", "e", " ", "a", " ", "C", "R",
      "M", " ", "s", "y", "s", "t", "e", "m", " ", "w", "i", "t", "h", " ",
      "t", "h", "e", " ", "d", "a", "t", "a", " ", "e", "x", "t", "r", "a",
      "c", "t", "e", "d", " ", "f", "r", "o", "m", " ", "t", "h", "e", " ",
      "s", "c", "r", "e", "e", "n", ".">>

PromptFramesLead ==
    <<"T", "h", "i", "s", " ", "i", "s", " ", "t", "h", "e", " ", "e", "x",
      "t", "r", "a", "c", "t", "e", "d", " ", "t", "e", "x", "t", " ", "o",
      "n", " ", "t", "h", "e", " ", "u", "s", "e", "r", "'", "s", " ", "s",
      "c", "r", "e", "e", "n", " ", "o", "v", "e", "r", " ", "t", "h", "e",
      " ", "p", "a", "s", "t", " ">>

PromptFramesTail ==
    <<" ", "f", "r", "a", "m", "e", "s", ":", " ", "\n", "\n">>

PromptLeadsLead ==
    <<"L", "e", "a", "d", "s", " ", "C", "S", "V", " ", "c", "o", "n", "t",
      "e", "n", "t", ":", " ">>

PromptAccountsLead ==
    <<"A", "c", "c", "o", "u", "n", "t", "s", " ", "C", "S", "V", " ", "c",
      "o", "n", "t", "e", "n", "t", ":", " ">>

PromptReturn ==
    <<"R", "e", "t", "u", "r", "n", " ", "a", " ", "J", "S", "O", "N", " ",
      "f", "u", "n", "c", "t", "i", "o", "n", " ", "c", "a", "l", "l", " ",
      "t", "o", " ", "u", "p", "d", "a", "t", "e", " ", "t", "h", "e", " ",
      "C", "R", "M", " ", "s", "y", "s", "t", "e", "m", " ", "w", "i", "t",
      "h", " ", "t", "h", "e", " ", "p", "r", "o", "c", "e", "s", "s", "e",
      "d", " ", "t", "e", "x", "t", ".">>

KeyFrames ==
    <<"f", "r", "a", "m", "e", "s">>

KeyFrameNumber ==
    <<"f", "r", "a", "m", "e", "_", "n", "u", "m", "b", "e", "r">>

KeyText ==
    <<"t", "e", "x", "t">>

\* batched_text with the frames numbered from 0 (enumerate's own index)
batched_text_from_zero(screen_texts) ==
    JDict(<< <<KeyFrames,
               JList([i \in 1..Len(screen_texts) |->
                        JDict(<< <<KeyFrameNumber, JInt(i - 1)>>,
                                 <<KeyText, JStr(screen_texts[i])>> >>)])>> >>)

\* the object build_prompt serialises as batched_text
batched_text(screen_texts) ==
    JDict(<< <<KeyFrames,
               JList([i \in 1..Len(screen_texts) |->
                        JDict(<< <<KeyFrameNumber, JInt(i)>>,
                                 <<KeyText, JStr(screen_texts[i])>> >>)])>> >>)

build_prompt(screen_texts, leads, accounts, batch_size) ==
    PromptRole
    \o PromptFramesLead \o int_str(batch_size) \o PromptFramesTail
    \o json_dumps(batched_text(screen_texts)) \o <<"\n", "\n">>
    \o PromptLeadsLead \o json_dumps(RecordsJson(leads)) \o <<"\n", "\n">>
    \o PromptAccountsLead \o json_dumps(RecordsJson(accounts)) \o <<"\n", "\n">>
    \o PromptReturn

(***************************************************************************)
(* CSV files.  A file is [exists, rows]; rows is what csv.reader yields,   *)
(* line by line: a sequence of rows, each a sequence of field strings (a   *)
(* blank line is the row <<>>).  A record (a Python dict, in column        *)
(* order) is a sequence of <<column, value>>.                              *)
(***************************************************************************)
NoFile == [exists |-> FALSE, rows |-> <<>>]
File(rows) == [exists |-> TRUE, rows |-> rows]

\* a writeheader that writes nothing when there is no field name
writeheader_nothing(fieldnames) == IF fieldnames = <<>> THEN <<>> ELSE <<fieldnames>>

\* csv.DictWriter(file, fieldnames).writeheader(): one line, the field names
writeheader(fieldnames) == <<fieldnames>>

\* csv.DictReader: the first line is the header, lines without a field are
\* skipped, every other line is zipped with the header (lines as long as
\* the header: the model's files hold no ragged line)
DictReader(rows) ==
    IF rows = <<>> THEN <<>>
    ELSE LET fieldnames == Head(rows)
             data == SelectSeq(Tail(rows), LAMBDA row : row # <<>>)
         IN  [i \in 1..Len(data) |->
                [j \in 1..Len(fieldnames) |-> <<fieldnames[j], data[i][j]>>]]

\* read_csv(file_path): the list it returns
read_csv_returns(fs, file_path) ==
    IF fs[file_path].exists THEN DictReader(fs[file_path].rows) ELSE <<>>

\* read_csv(file_path): the file system it leaves
read_csv_files(fs, file_path) ==
    IF fs[file_path].exists THEN fs
    ELSE [fs EXCEPT ![file_path] = File(writeheader(<<>>))]

\* on_activity printing as send_alert does: "Alert: " before the activity
on_activity_alert(out, activity) ==
    Append(out, <<"A", "l", "e", "r", "t", ":", " ">> \o activity)

\* on_activity(activity): print(activity), as the lines printed so far
on_activity(out, activity) == Append(out, activity)

(***************************************************************************)
(* The values the model draws its inputs from.                             *)
(***************************************************************************)
Paths == {"leads.csv", "accounts.csv"}

ColName == <<"n", "a", "m", "e">>

\* CSV files of the main loop's runs: absent, header only, one record
LoopFiles ==
    { NoFile,
      File(<< <<ColName>> >>),
      File(<< <<ColName>>, << <<"A", "c", "m", "e">> >> >>) }

\* CSV files of the stand-alone CSV specification: also a file of no byte,
\* a file holding one blank line, and records around a blank line
CsvFiles ==
    LoopFiles \cup
    { File(<<>>),
      File(<< <<>> >>),
      File(<< <<ColName, <<"c", "o">> >>,
              << <<"A", "n", "n">>, <<"X">> >>,
              <<>>,
              << <<"B", "o", "\"">>, <<>> >> >>) }

\* OCR texts and corpus texts of the main loop's runs
LoopTexts == { <<"h", "i">>, <<"a", "\n", "b">> }

\* what the model may answer (response.choices[0].message.content)
Responses == { <<"{", "}">>, <<"o", "k">> }

SleepIntervals == {0, 1}

BatchSizes == 0..MaxBatch

RECURSIVE SeqsUpTo(_, _)
SeqsUpTo(S, n) ==
    IF n = 0 THEN {<<>>}
    ELSE LET shorter == SeqsUpTo(S, n - 1)
         IN  shorter \cup {Append(s, x) : s \in {t \in shorter : Len(t) = n - 1}, x \in S}

\* the test corpus file: missing, not a JSON document with a "frames"
\* array of entries with a "text", or such a document (its texts)
NoCorpus == [exists |-> FALSE, valid |-> FALSE, frames |-> <<>>]
BadCorpus == [exists |-> TRUE, valid |-> FALSE, frames |-> <<>>]
Corpus(texts) == [exists |-> TRUE, valid |-> TRUE, frames |-> texts]
Corpora == {NoCorpus, BadCorpus} \cup {Corpus(t) : t \in SeqsUpTo(LoopTexts, MaxFrames)}

(***************************************************************************)
(* State.                                                                  *)
(***************************************************************************)
VARIABLES
    files,           \* the file system: path -> CSV file
    test_data,       \* the file test_data_file names
    batch_size,      \* main_loop's arguments
    sleep_interval,
    test_data_file,  \* "" (falsy: live capture) or the corpus path
    pc,              \* where main_loop stands
    leads,           \* main_loop's locals
    accounts,
    screen_texts,
    text,
    prompt,
    processed_text,
    consumed,        \* the texts appended to screen_texts so far, in order
    reads,           \* the paths read_csv was called with, in order
    returned,        \* what each read_csv call returned, in order
    existed,         \* whether the file existed at each read_csv call
    calls,           \* the inference calls: what each prompt was built from
    responses,       \* what the inference calls returned, in order
    printed,         \* what on_activity printed, in order
    captures,        \* number of capture_screen calls
    extractions,     \* number of process_image_with_tesseract calls
    sleeps,          \* the time.sleep calls: their arguments, in order
    failed_at,       \* the step whose exception ended main_loop, or "none"
    feed,            \* paired runs: the texts both paths are fed
    test_run,        \* paired runs: the test-corpus path's batch and calls
    live_run         \* paired runs: the live-capture path's batch and calls

vars == <<files, test_data, batch_size, sleep_interval, test_data_file, pc,
          leads, accounts, screen_texts, text, prompt, processed_text,
          consumed, reads, returned, calls, responses, printed, captures,
          extractions, sleeps, failed_at, existed, feed, test_run, live_run>>

\* main_loop's arguments and the files are never assigned by the loop
args == <<batch_size, sleep_interval, test_data_file, test_data>>
\* the CRM state main_loop loaded
crm == <<leads, accounts>>
\* the history of read_csv calls
csv == <<reads, returned, existed>>
\* the paired runs of the two paths
pair == <<feed, test_run, live_run>>
\* the history of the live path's external calls
live == <<captures, extractions, sleeps>>

TestData == "test_data.json"

\* a run of one path: its batch, the batches it sent to inference, and the
\* number of texts it has taken from the feed
NewRun == [screen_texts |-> <<>>, calls |-> <<>>, done |-> 0]

\* the paired runs stand still in the other specifications
PairIdle ==
    /\ feed = <<>>
    /\ test_run = NewRun
    /\ live_run = NewRun

Init ==
    /\ files \in [Paths -> LoopFiles]
    /\ batch_size \in BatchSizes
    /\ sleep_interval \in SleepIntervals
    /\ test_data_file \in {"", TestData}
    /\ test_data \in IF test_data_file = "" THEN {NoCorpus} ELSE Corpora
    /\ pc = "read_leads"
    /\ leads = <<>>
    /\ accounts = <<>>
    /\ screen_texts = <<>>
    /\ text = <<>>
    /\ prompt = <<>>
    /\ processed_text = <<>>
    /\ consumed = <<>>
    /\ reads = <<>>
    /\ returned = <<>>
    /\ existed = <<>>
    /\ calls = <<>>
    /\ responses = <<>>
    /\ printed = <<>>
    /\ captures = 0
    /\ extractions = 0
    /\ sleeps = <<>>
    /\ failed_at = "none"
    /\ PairIdle

(***************************************************************************)
(* main_loop, statement by statement.  An external call (the model load,   *)
(* the corpus load, capture, OCR, inference) either returns or raises; no  *)
(* statement of main_loop catches, so a raise ends main_loop.              *)
(***************************************************************************)
\* the exception caught and the step tried again
Raise_retry(step) ==
    /\ pc' = pc
    /\ failed_at' = step

\* an uncaught exception raised at step: main_loop is left for good
Raise(step) ==
    /\ pc' = "failed"
    /\ failed_at' = step

\* leads = read_csv("leads.csv")
ReadLeads ==
    /\ pc = "read_leads"
    /\ leads' = read_csv_returns(files, "leads.csv")
    /\ files' = read_csv_files(files, "leads.csv")
    /\ reads' = Append(reads, "leads.csv")
    /\ returned' = Append(returned, leads')
    /\ existed' = Append(existed, files["leads.csv"].exists)
    /\ pc' = "read_accounts"
    /\ UNCHANGED <<args, pair, accounts, screen_texts, text, prompt, processed_text,
                   consumed, calls, responses, printed, live, failed_at>>

\* accounts = read_csv("accounts.csv")
ReadAccounts ==
    /\ pc = "read_accounts"
    /\ accounts' = read_csv_returns(files, "accounts.csv")
    /\ files' = read_csv_files(files, "accounts.csv")
    /\ reads' = Append(reads, "accounts.csv")
    /\ returned' = Append(returned, accounts')
    /\ existed' = Append(existed, files["accounts.csv"].exists)
    /\ pc' = "load_model"
    /\ UNCHANGED <<args, pair, leads, screen_texts, text, prompt, processed_text,
                   consumed, calls, responses, printed, live, failed_at>>

\* logic_processor_model = MLCEngine(...); screen_texts = []; if test_data_file
LoadModel ==
    /\ pc = "load_model"
    /\ \E ok \in BOOLEAN :
         IF ok
         THEN /\ screen_texts' = <<>>
              /\ pc' = IF test_data_file # "" THEN "open_corpus" ELSE "capture"
              /\ UNCHANGED failed_at
         ELSE /\ Raise("load_model")
              /\ UNCHANGED screen_texts
    /\ UNCHANGED <<args, pair, files, crm, csv, text, prompt, processed_text,
                   consumed, calls, responses, printed, live>>

\* with open(test_data_file) as file: test_data = json.load(file)
\* and the evaluation of test_data["frames"]
OpenCorpus ==
    /\ pc = "open_corpus"
    /\ IF test_data.exists /\ test_data.valid
       THEN pc' = "for_next" /\ UNCHANGED failed_at
       ELSE Raise("corpus")
    /\ UNCHANGED <<args, pair, files, crm, csv, screen_texts, text, prompt,
                   processed_text, consumed, calls, responses, printed, live>>

\* the batch-full test with > for >=
batch_full_strict(texts, size) == Len(texts) > size

\* the batch-full test of both paths: len(screen_texts) >= batch_size
batch_full(texts, size) == Len(texts) >= size

\* prompt = build_prompt(...); response = ...completions.create(...);
\* processed_text = response.choices[0].message.content
Infer(from, to) ==
    /\ pc = from
    /\ prompt' = build_prompt(screen_texts, leads, accounts, batch_size)
    /\ calls' = Append(calls, [screen_texts |-> screen_texts, leads |-> leads,
                               accounts |-> accounts, batch_size |-> batch_size])
    /\ \/ \E r \in Responses :
            /\ processed_text' = r
            /\ responses' = Append(responses, r)
            /\ pc' = to
            /\ UNCHANGED failed_at
       \/ /\ Raise("inference")
          /\ UNCHANGED <<processed_text, responses>>
    /\ UNCHANGED <<args, pair, files, crm, csv, screen_texts, text, consumed,
                   printed, live>>

\* on_activity with update_crm(activity) enabled: the activity is added to
\* leads and leads.csv is rewritten
Activity_update_crm(from, to) ==
    /\ pc = from
    /\ printed' = on_activity(printed, processed_text)
    /\ leads' = Append(leads, << <<ColName, processed_text>> >>)
    /\ files' = [files EXCEPT !["leads.csv"] =
                    File(<< <<ColName>> >> \o [i \in 1..Len(leads') |-> <<leads'[i][1][2]>>])]
    /\ pc' = to
    /\ UNCHANGED <<args, pair, accounts, csv, screen_texts, text, prompt,
                   processed_text, consumed, calls, responses, live, failed_at>>

\* await on_activity(processed_text)
Activity(from, to) ==
    /\ pc = from
    /\ printed' = on_activity(printed, processed_text)
    /\ pc' = to
    /\ UNCHANGED <<args, pair, files, crm, csv, screen_texts, text, prompt,
                   processed_text, consumed, calls, responses, live, failed_at>>

\* the batch not cleared after a call
Clear_keep(from, to) ==
    /\ pc = from
    /\ pc' = to
    /\ UNCHANGED <<args, pair, files, crm, csv, screen_texts, text, prompt,
                   processed_text, consumed, calls, responses, printed, live,
                   failed_at>>

\* screen_texts = []
Clear(from, to) ==
    /\ pc = from
    /\ screen_texts' = <<>>
    /\ pc' = to
    /\ UNCHANGED <<args, pair, files, crm, csv, text, prompt, processed_text,
                   consumed, calls, responses, printed, live, failed_at>>

(* the test-corpus path *)

\* for entry in test_data["frames"]: screen_texts.append(entry["text"])
TestAppend ==
    /\ pc = "for_next"
    /\ Len(consumed) < Len(test_data.frames)
    /\ screen_texts' = Append(screen_texts, test_data.frames[Len(consumed) + 1])
    /\ consumed' = Append(consumed, test_data.frames[Len(consumed) + 1])
    /\ pc' = "test_check"
    /\ UNCHANGED <<args, pair, files, crm, csv, text, prompt, processed_text, calls,
                   responses, printed, live, failed_at>>

\* the for loop is exhausted: main_loop returns
TestReturn ==
    /\ pc = "for_next"
    /\ Len(consumed) = Len(test_data.frames)
    /\ pc' = "returned"
    /\ UNCHANGED <<args, pair, files, crm, csv, screen_texts, text, prompt,
                   processed_text, consumed, calls, responses, printed, live,
                   failed_at>>

\* if len(screen_texts) >= batch_size
TestCheck ==
    /\ pc = "test_check"
    /\ pc' = IF batch_full(screen_texts, batch_size) THEN "test_infer" ELSE "for_next"
    /\ UNCHANGED <<args, pair, files, crm, csv, screen_texts, text, prompt,
                   processed_text, consumed, calls, responses, printed, live,
                   failed_at>>

TestInfer == Infer("test_infer", "test_activity")

TestActivity == Activity("test_activity", "test_clear")

\* the test path returning after its first handled call
TestClear_return == Clear("test_clear", "returned")

TestClear == Clear("test_clear", "for_next")

(* the live-capture path *)

\* while True: image = capture_screen()
Capture ==
    /\ pc = "capture"
    /\ captures < MaxFrames
    /\ captures' = captures + 1
    /\ \E ok \in BOOLEAN :
         IF ok THEN pc' = "extract" /\ UNCHANGED failed_at
         ELSE Raise("capture")
    /\ UNCHANGED <<args, pair, files, crm, csv, screen_texts, text, prompt,
                   processed_text, consumed, calls, responses, printed,
                   extractions, sleeps>>

\* text = process_image_with_tesseract(image)
Extract ==
    /\ pc = "extract"
    /\ extractions' = extractions + 1
    /\ \/ \E t \in LoopTexts :
            /\ text' = t
            /\ pc' = "live_append"
            /\ UNCHANGED failed_at
       \/ /\ Raise("extract")
          /\ UNCHANGED text
    /\ UNCHANGED <<args, pair, files, crm, csv, screen_texts, prompt, processed_text,
                   consumed, calls, responses, printed, captures, sleeps>>

\* screen_texts.append(text)
LiveAppend ==
    /\ pc = "live_append"
    /\ screen_texts' = Append(screen_texts, text)
    /\ consumed' = Append(consumed, text)
    /\ pc' = "live_check"
    /\ UNCHANGED <<args, pair, files, crm, csv, text, prompt, processed_text, calls,
                   responses, printed, live, failed_at>>

\* if len(screen_texts) >= batch_size
LiveCheck ==
    /\ pc = "live_check"
    /\ pc' = IF batch_full(screen_texts, batch_size) THEN "live_infer" ELSE "sleep"
    /\ UNCHANGED <<args, pair, files, crm, csv, screen_texts, text, prompt,
                   processed_text, consumed, calls, responses, printed, live,
                   failed_at>>

LiveInfer == Infer("live_infer", "live_activity")

LiveActivity == Activity("live_activity", "live_clear")

\* the live path skipping the sleep after a handled call
LiveClear_continue == Clear("live_clear", "capture")

LiveClear == Clear("live_clear", "sleep")

\* time.sleep(sleep_interval)
Sleep ==
    /\ pc = "sleep"
    /\ sleeps' = Append(sleeps, sleep_interval)
    /\ pc' = "capture"
    /\ UNCHANGED <<args, pair, files, crm, csv, screen_texts, text, prompt,
                   processed_text, consumed, calls, responses, printed,
                   captures, extractions, failed_at>>

Next ==
    \/ ReadLeads \/ ReadAccounts \/ LoadModel \/ OpenCorpus
    \/ TestAppend \/ TestReturn \/ TestCheck \/ TestInfer \/ TestActivity
    \/ TestClear
    \/ Capture \/ Extract \/ LiveAppend \/ LiveCheck \/ LiveInfer
    \/ LiveActivity \/ LiveClear \/ Sleep

Spec == Init /\ [][Next]_vars

(***************************************************************************)
(* read_csv on its own: any sequence of calls on the two paths.            *)
(***************************************************************************)
\* main_loop's own variables stand still in the stand-alone specifications
LoopIdle ==
    /\ sleep_interval = 0
    /\ test_data_file = ""
    /\ test_data = NoCorpus
    /\ text = <<>>
    /\ processed_text = <<>>
    /\ consumed = <<>>
    /\ calls = <<>>
    /\ responses = <<>>
    /\ printed = <<>>
    /\ captures = 0
    /\ extractions = 0
    /\ sleeps = <<>>
    /\ failed_at = "none"

CsvInit ==
    /\ files \in [Paths -> CsvFiles]
    /\ reads = <<>>
    /\ returned = <<>>
    /\ existed = <<>>
    /\ pc = "csv"
    /\ batch_size = 0
    /\ leads = <<>>
    /\ accounts = <<>>
    /\ screen_texts = <<>>
    /\ prompt = <<>>
    /\ LoopIdle
    /\ PairIdle

\* one call read_csv(file_path)
CsvRead ==
    /\ pc = "csv"
    /\ Len(reads) < MaxReads
    /\ \E file_path \in Paths :
         /\ returned' = Append(returned, read_csv_returns(files, file_path))
         /\ files' = read_csv_files(files, file_path)
         /\ reads' = Append(reads, file_path)
         /\ existed' = Append(existed, files[file_path].exists)
    /\ UNCHANGED <<args, pair, pc, crm, screen_texts, text, prompt,
                   processed_text, consumed, calls, responses, printed, live,
                   failed_at>>

SpecCsv == CsvInit /\ [][CsvRead]_vars

(***************************************************************************)
(* build_prompt on its own.                                                *)
(***************************************************************************)
\* frame texts: plain ones, and ones with the characters json.dumps escapes
PromptTexts ==
    { <<>>,
      <<"h", "i">>,
      <<"a", "\n", "b">>,
      <<"s", "a", "y", " ", "\"", "x", "\"">>,
      <<"C", ":", "\\", "t">>,
      <<"\t", "\\", "\"">> }

\* record lists as read_csv returns them
PromptRecords ==
    {DictReader(f.rows) : f \in {g \in CsvFiles : g.exists}}

PromptInit ==
    /\ screen_texts \in SeqsUpTo(PromptTexts, MaxPromptFrames)
    /\ leads \in PromptRecords
    /\ accounts \in PromptRecords
    /\ batch_size \in BatchSizes
    /\ prompt = <<>>
    /\ pc = "build"
    /\ files = [p \in Paths |-> NoFile]
    /\ reads = <<>>
    /\ returned = <<>>
    /\ existed = <<>>
    /\ LoopIdle
    /\ PairIdle

\* prompt = build_prompt(screen_texts, leads, accounts, batch_size)
BuildPrompt ==
    /\ pc = "build"
    /\ prompt' = build_prompt(screen_texts, leads, accounts, batch_size)
    /\ pc' = "built"
    /\ UNCHANGED <<args, pair, files, crm, csv, screen_texts, text,
                   processed_text, consumed, calls, responses, printed, live,
                   failed_at>>

SpecPrompt == PromptInit /\ [][BuildPrompt]_vars

(***************************************************************************)
(* The two paths of main_loop side by side, fed the same texts: the        *)
(* test-corpus path takes them as the corpus entries, the live-capture     *)
(* path as the successive OCR results.  One action is one iteration of a   *)
(* path's loop body, and a call is recorded as the batch its prompt is     *)
(* built from (leads, accounts and batch_size are the same in both).       *)
(***************************************************************************)
\* test-corpus path, one iteration: append, then test, then infer and clear
test_iteration(run, entry_text, size) ==
    LET appended == Append(run.screen_texts, entry_text)
    IN  IF batch_full(appended, size)
        THEN [screen_texts |-> <<>>,
              calls |-> Append(run.calls, appended),
              done |-> run.done + 1]
        ELSE [screen_texts |-> appended,
              calls |-> run.calls,
              done |-> run.done + 1]

\* live-capture path testing the batch before appending
live_iteration_check_first(run, ocr_text, size) ==
    IF batch_full(run.screen_texts, size)
    THEN [screen_texts |-> <<ocr_text>>,
          calls |-> Append(run.calls, run.screen_texts),
          done |-> run.done + 1]
    ELSE [screen_texts |-> Append(run.screen_texts, ocr_text),
          calls |-> run.calls,
          done |-> run.done + 1]

\* live-capture path, one iteration: append, then test, then infer and clear
live_iteration(run, ocr_text, size) ==
    LET appended == Append(run.screen_texts, ocr_text)
    IN  IF batch_full(appended, size)
        THEN [screen_texts |-> <<>>,
              calls |-> Append(run.calls, appended),
              done |-> run.done + 1]
        ELSE [screen_texts |-> appended,
              calls |-> run.calls,
              done |-> run.done + 1]

PairInit ==
    /\ feed \in SeqsUpTo(LoopTexts, MaxFrames)
    /\ batch_size \in BatchSizes
    /\ test_run = NewRun
    /\ live_run = NewRun
    /\ pc = "pair"
    /\ files = [p \in Paths |-> NoFile]
    /\ reads = <<>>
    /\ returned = <<>>
    /\ existed = <<>>
    /\ leads = <<>>
    /\ accounts = <<>>
    /\ screen_texts = <<>>
    /\ prompt = <<>>
    /\ LoopIdle

PairTestIteration ==
    /\ pc = "pair"
    /\ test_run.done < Len(feed)
    /\ test_run' = test_iteration(test_run, feed[test_run.done + 1], batch_size)
    /\ UNCHANGED <<args, feed, live_run, files, pc, crm, csv, screen_texts,
                   text, prompt, processed_text, consumed, calls, responses,
                   printed, live, failed_at>>

PairLiveIteration ==
    /\ pc = "pair"
    /\ live_run.done < Len(feed)
    /\ live_run' = live_iteration(live_run, feed[live_run.done + 1], batch_size)
    /\ UNCHANGED <<args, feed, test_run, files, pc, crm, csv, screen_texts,
                   text, prompt, processed_text, consumed, calls, responses,
                   printed, live, failed_at>>

PairNext == PairTestIteration \/ PairLiveIteration

SpecPair == PairInit /\ [][PairNext]_vars

(***************************************************************************)
(* Properties.                                                             *)
(***************************************************************************)
TestMode == test_data_file # ""

StartupPcs == {"read_leads", "read_accounts"}

\* where main_loop stands between two iterations' bodies or before a frame
\* is appended
BetweenFrames == {"for_next", "returned", "capture", "extract", "live_append", "sleep"}

\* the k-th run of size consecutive frames
Chunk(frames, k, size) == SubSeq(frames, (k - 1) * size + 1, k * size)

\* C1: in test-corpus mode with a positive batch_size b and a corpus of n
\* frames, the k-th inference call is built from exactly the corpus frames
\* (k-1)*b+1 .. k*b in corpus order, there are never more than n div b
\* calls, and when main_loop returns there are exactly n div b (so none
\* when n < b, and the trailing n mod b frames are never sent).
C1_TestCorpusBatches ==
    (TestMode /\ batch_size >= 1) =>
        LET n == Len(test_data.frames)
        IN  /\ Len(calls) <= n \div batch_size
            /\ \A k \in 1..Len(calls) :
                 /\ Len(calls[k].screen_texts) = batch_size
                 /\ calls[k].screen_texts = Chunk(test_data.frames, k, batch_size)
            /\ pc = "returned" => Len(calls) = n \div batch_size

C1_Witness ==
    /\ TestMode
    /\ pc = "returned"
    /\ batch_size = 2
    /\ Len(test_data.frames) = 4
    /\ Len(calls) = 2
    /\ calls[1].screen_texts # calls[2].screen_texts

\* C2: on_activity is called with exactly what the inference call returned:
\* what it has printed is always what the inference calls have returned so
\* far, in order, less at most the one response being handed over; every
\* returned response has reached on_activity, once, before a further frame
\* is appended; and on_activity is never ahead of the inference calls.
C2_ActivityPassThrough ==
    /\ Len(responses) <= Len(calls)
    /\ Len(calls) <= Len(responses) + 1
    /\ IF pc \in {"test_activity", "live_activity"}
       THEN /\ Len(responses) = Len(printed) + 1
            /\ printed = SubSeq(responses, 1, Len(printed))
            /\ processed_text = responses[Len(responses)]
       ELSE printed = responses
    /\ pc \in BetweenFrames => Len(printed) = Len(calls)

C2_Witness ==
    /\ pc \in {"for_next", "capture"}
    /\ Len(calls) = 2
    /\ Len(printed) = 2
    /\ printed[1] # printed[2]
    /\ printed = responses

\* C4: with a positive batch_size the batch never holds more than
\* batch_size texts, it holds exactly batch_size texts whenever inference
\* is invoked, and once the activity of a call is handled and the batch
\* cleared it is empty: between frames it holds the frames taken since the
\* last call, fewer than batch_size.
C4_BatchBounded ==
    batch_size >= 1 =>
        /\ Len(screen_texts) <= batch_size
        /\ pc \in {"test_infer", "live_infer"} => Len(screen_texts) = batch_size
        /\ \A k \in 1..Len(calls) : Len(calls[k].screen_texts) = batch_size
        /\ pc \in BetweenFrames =>
             /\ Len(screen_texts) = Len(consumed) % batch_size
             /\ Len(printed) * batch_size = Len(consumed) => screen_texts = <<>>

C4_Witness ==
    /\ ~TestMode
    /\ pc = "sleep"
    /\ batch_size = 2
    /\ Len(consumed) = 4
    /\ Len(printed) = 2
    /\ screen_texts = <<>>

\* C6: with a test corpus the loop takes the corpus entries in their order
\* and never captures, extracts or sleeps; without one, every sleep is of
\* sleep_interval, every finished iteration has made one capture and one
\* sleep, and the sleep comes last: after the capture, the append and any
\* inference and activity handling of the iteration.
C6_ModeSelection ==
    /\ TestMode =>
         /\ captures = 0
         /\ extractions = 0
         /\ sleeps = <<>>
         /\ consumed = SubSeq(test_data.frames, 1, Len(consumed))
    /\ ~TestMode =>
         /\ \A i \in 1..Len(sleeps) : sleeps[i] = sleep_interval
         /\ extractions <= captures
         /\ Len(sleeps) <= captures
         /\ captures <= Len(sleeps) + 1
         /\ pc = "capture" => captures = Len(sleeps)
         /\ pc \in {"extract", "live_append", "live_check", "live_infer",
                    "live_activity", "live_clear", "sleep"} =>
              captures = Len(sleeps) + 1
         /\ pc = "sleep" =>
              /\ extractions = captures
              /\ Len(consumed) = captures
              /\ Len(calls) = Len(responses)
              /\ printed = responses

C6_Witness ==
    /\ ~TestMode
    /\ pc = "capture"
    /\ sleep_interval = 1
    /\ captures = 3
    /\ sleeps = <<1, 1, 1>>
    /\ Len(printed) >= 1

\* C7 as claimed: main_loop never returns, in either mode.
C7_NeverReturns == pc # "returned"

\* C7 as amended: main_loop never returns in live-capture mode; in
\* test-corpus mode it returns, and only once every corpus entry has been
\* taken.
C7_ReturnsOnlyAtCorpusEnd ==
    pc = "returned" => (TestMode /\ consumed = test_data.frames)

C7_Witness ==
    /\ pc = "returned"
    /\ TestMode
    /\ Len(consumed) = 3
    /\ Len(calls) = 1
    /\ failed_at = "none"

\* C8: a failure ends main_loop for good.  The step that raised is recorded
\* and main_loop is left at once; from then on nothing happens: no retry,
\* no capture, no frame taken, no inference; and when it is an inference
\* call that raised, on_activity was not called for its batch.
C8_FailureEndsLoop ==
    /\ []((failed_at # "none") <=> (pc = "failed"))
    /\ [](failed_at = "inference" =>
             /\ Len(calls) = Len(responses) + 1
             /\ printed = responses)
    /\ [][pc # "failed"]_vars

C8_Witness ==
    /\ pc = "failed"
    /\ failed_at = "inference"
    /\ Len(calls) = 2
    /\ Len(printed) = 1

FrameEntries(texts) ==
    Concat([i \in 1..Len(texts) |->
              << json_dumps_str(KeyFrameNumber) \o <<":", " ">> \o int_str(i) \o <<",">>,
                 json_dumps_str(KeyText) \o <<":", " ">> \o json_dumps_str(texts[i]) >>])

\* C3 as claimed: the prompt contains the serialized leads, the serialized
\* accounts and every frame's text verbatim, the texts in frame order.
C3_PromptHoldsTextsVerbatim ==
    pc = "built" =>
        /\ Contains(prompt, json_dumps(RecordsJson(leads)))
        /\ Contains(prompt, json_dumps(RecordsJson(accounts)))
        /\ ContainsInOrder(prompt, screen_texts, 1)

\* C3 as amended: the prompt contains the serialized leads and the
\* serialized accounts verbatim (each after its label), and every frame's
\* text as a JSON string, that is with json.dumps' escapes, in frame order,
\* the i-th text after "frame_number": i.
C3_PromptHoldsTextsEscaped ==
    pc = "built" =>
        /\ Contains(prompt, PromptLeadsLead \o json_dumps(RecordsJson(leads)))
        /\ Contains(prompt, PromptAccountsLead \o json_dumps(RecordsJson(accounts)))
        /\ ContainsInOrder(prompt, FrameEntries(screen_texts), 1)

C3_Witness ==
    /\ pc = "built"
    /\ Len(screen_texts) = 2
    /\ screen_texts[1] = <<"a", "\n", "b">>
    /\ screen_texts[2] = <<"h", "i">>
    /\ ~Contains(prompt, screen_texts[1])
    /\ Len(leads) = 2
    /\ Len(accounts) = 1

\* the file read_csv leaves at a path that did not exist: one header line
\* without a column (a lone line terminator)
BlankHeaderFile == File(<< <<>> >>)

\* the calls after the k-th on the same path
LaterReads(k) == {j \in (k + 1)..Len(reads) : reads[j] = reads[k]}

\* C5 as claimed: read_csv on a path that does not exist returns an empty
\* list and leaves an empty file there; a later read_csv of the path
\* returns an empty list again.
C5_MissingFileLeftEmpty ==
    \A k \in 1..Len(reads) :
        ~existed[k] =>
            /\ returned[k] = <<>>
            /\ files[reads[k]] = File(<<>>)
            /\ \A j \in LaterReads(k) : existed[j] /\ returned[j] = <<>>

\* C5 as amended: read_csv on a path that does not exist returns an empty
\* list and leaves there a file that is not empty: it holds one header line
\* without a column; a later read_csv of the path finds the file, returns
\* an empty list again and leaves the file as it is.
C5_MissingFileLeftWithBlankHeader ==
    \A k \in 1..Len(reads) :
        ~existed[k] =>
            /\ returned[k] = <<>>
            /\ files[reads[k]] = BlankHeaderFile
            /\ \A j \in LaterReads(k) : existed[j] /\ returned[j] = <<>>

C5_Witness ==
    /\ pc = "csv"
    /\ reads = <<"leads.csv", "accounts.csv", "leads.csv">>
    /\ existed = <<FALSE, TRUE, TRUE>>
    /\ returned[1] = <<>>
    /\ returned[2] # <<>>
    /\ returned[3] = <<>>
    /\ files["leads.csv"] = BlankHeaderFile

\* both runs have taken the whole feed, and it fills at least one batch
PairDone ==
    /\ test_run.done = Len(feed)
    /\ live_run.done = Len(feed)
    /\ batch_size >= 1
    /\ Len(feed) >= batch_size

\* C10 as claimed: fed the same texts with the same batch_size, the two
\* paths do not make the same sequence of inference calls.
C10_PathsDiffer == PairDone => test_run.calls # live_run.calls

\* C10 as amended: both paths test the batch after appending, so after any
\* iteration the batch is below batch_size, no text is lost or reordered,
\* and after the same number of texts the two paths have made the same
\* inference calls and hold the same batch.
C10_PathsAgree ==
    /\ \A run \in {test_run, live_run} :
         /\ batch_size >= 1 => Len(run.screen_texts) < batch_size
         /\ Concat(run.calls) \o run.screen_texts = SubSeq(feed, 1, run.done)
    /\ test_run.done = live_run.done =>
         /\ test_run.calls = live_run.calls
         /\ test_run.screen_texts = live_run.screen_texts

C10_Witness ==
    /\ PairDone
    /\ batch_size = 2
    /\ Len(feed) = 4
    /\ Len(test_run.calls) = 2
    /\ test_run.calls = live_run.calls
    /\ test_run.calls[1] # test_run.calls[2]

=============================================================================
